---- MODULE Spec2Model ----
(***************************************************************************)
(* A model of the SDSS scrape notebook: the catalog trim, the sexagesimal  *)
(* coordinate conversion, the sky-coverage filter, the coarse Hubble-type  *)
(* mapping, the resolution computation, the link construction and the      *)
(* image download loop.                                                    *)
(*                                                                         *)
(* Number representation.  The notebook computes with binary floats; the   *)
(* model computes the same expressions exactly, on scaled integers:        *)
(*   - a parsed sexagesimal field is held in hundredths (float("19.77")    *)
(*     is 1977);                                                           *)
(*   - RA_decimal is held in units of 1/(240*100) degree;                  *)
(*   - Dec_decimal is held in units of 1/(3600*100) degree;                *)
(*   - MajAx is held in units of 1/10000 arcminute;                        *)
(*   - image_res is held in units of 1/(image_size*10000) arcsec/pixel.    *)
(* A character string that the code indexes or splits is a sequence of     *)
(* one-character strings; a string the code only compares is a string.     *)
(***************************************************************************)
EXTENDS Integers, Sequences, FiniteSets, TLC

VARIABLES
    ngc_ic_raw,             \* the catalog as read (line 36)
    ngc_ic,                 \* the trimmed frame (line 68) and its added columns
    ngc_ic_SDSS_imagery,    \* the frame inside the sky rectangle (line 153)
    violated_bounds,        \* names of the objects at a resolution bound (line 247)
    dirs,                   \* the class folders that exist under imagery/
    files,                  \* the image files that exist under imagery/
    server,                 \* environment: which objects' URLs the service answers
    i,                      \* position of the download loop in the frame
    pc,                     \* the statement the notebook is at
    err                     \* the exception that ended the run, or "none"

vars == <<ngc_ic_raw, ngc_ic, ngc_ic_SDSS_imagery, violated_bounds,
          dirs, files, server, i, pc, err>>

---------------------------------------------------------------------------
(* Character strings *)

Digit == <<"0", "1", "2", "3", "4", "5", "6", "7", "8", "9">>

Digits == {Digit[k] : k \in 1..10}

DigitVal(c) == (CHOOSE k \in 1..10 : Digit[k] = c) - 1

\* str.split(':'): the fields between the colons, empty fields included
RECURSIVE split(_)
split(s) ==
    IF \A k \in 1..Len(s) : s[k] # ":"
    THEN <<s>>
    ELSE LET p == CHOOSE k \in 1..Len(s) :
                      s[k] = ":" /\ \A j \in 1..(k - 1) : s[j] # ":"
         IN  <<SubSeq(s, 1, p - 1)>> \o split(SubSeq(s, p + 1, Len(s)))

RECURSIVE DigitsValue(_)
DigitsValue(s) ==
    IF Len(s) = 0 THEN 0
    ELSE 10 * DigitsValue(SubSeq(s, 1, Len(s) - 1)) + DigitVal(s[Len(s)])

\* float(s) on a string of sign, digits and point characters: an optional
\* sign, then digits with at most one point and at least one digit.  The
\* value is returned in hundredths (two fractional digits are read).
float(s) ==
    LET signed == Len(s) > 0 /\ s[1] \in {"+", "-"}
        body   == IF signed THEN SubSeq(s, 2, Len(s)) ELSE s
        points == {k \in 1..Len(body) : body[k] = "."}
        p      == IF points = {} THEN Len(body) + 1
                  ELSE CHOOSE k \in points : TRUE
        whole  == SubSeq(body, 1, p - 1)
        frac   == SubSeq(body, p + 1, Len(body))
        frac2  == SubSeq(frac \o <<"0", "0">>, 1, 2)
        ok     == /\ Cardinality(points) <= 1
                  /\ \A k \in 1..Len(body) : body[k] \in Digits \cup {"."}
                  /\ Len(whole) + Len(frac) > 0
        mag    == 100 * DigitsValue(whole) + DigitsValue(frac2)
    IN  IF ~ok THEN [err |-> "ValueError", val |-> 0]
        ELSE [err |-> "none",
              val |-> IF signed /\ s[1] = "-" THEN 0 - mag ELSE mag]

\* float(L[0]), float(L[1]), float(L[2]) evaluated left to right: the first
\* missing field raises IndexError, the first unparsable one ValueError
RECURSIVE three_floats(_, _)
three_floats(L, k) ==
    IF k > 3 THEN [err |-> "none", val |-> <<>>]
    ELSE IF Len(L) < k THEN [err |-> "IndexError", val |-> <<>>]
    ELSE LET f == float(L[k])
         IN  IF f.err # "none" THEN [err |-> f.err, val |-> <<>>]
             ELSE LET rest == three_floats(L, k + 1)
                  IN  IF rest.err # "none" THEN rest
                      ELSE [err |-> "none", val |-> <<f.val>> \o rest.val]

---------------------------------------------------------------------------
(* Coordinate conversion *)

\* units of RA_decimal per degree: seconds of time are 1/240 degree
RAUnit == 240 * 100

\* units of Dec_decimal per degree: seconds of arc are 1/3600 degree
DecUnit == 3600 * 100

\* RA_HMS_to_dec_deg with seconds weighted as minutes of arc, 1/60
RA_HMS_seconds_as_sixtieths(HMS) ==
    LET t == three_floats(split(HMS), 1)
    IN  IF t.err # "none" THEN [err |-> t.err, val |-> 0]
        ELSE [err |-> "none",
              val |-> 3600 * t.val[1] + 60 * t.val[2] + 4 * t.val[3]]

\* deg = 15*hours + 0.25*minutes + (1/240)*seconds
RA_HMS_to_dec_deg(HMS) ==
    LET t == three_floats(split(HMS), 1)
    IN  IF t.err # "none" THEN [err |-> t.err, val |-> 0]
        ELSE [err |-> "none",
              val |-> 3600 * t.val[1] + 60 * t.val[2] + t.val[3]]

\* deg = sign*(degrees + (1/60)*minutes + (1/3600)*seconds)
DEC_DMS_to_dec_deg(DMS) ==
    IF Len(DMS) = 0 THEN [err |-> "IndexError", val |-> 0]
    ELSE IF DMS[1] \notin {"+", "-"} THEN [err |-> "ValueError", val |-> 0]
    ELSE LET sign == IF DMS[1] = "+" THEN 1 ELSE 0 - 1
             t    == three_floats(split(SubSeq(DMS, 2, Len(DMS))), 1)
         IN  IF t.err # "none" THEN [err |-> t.err, val |-> 0]
             ELSE [err |-> "none",
                   val |-> sign * (3600 * t.val[1] + 60 * t.val[2] + t.val[3])]

---------------------------------------------------------------------------
(* Coarse Hubble types *)

\* the table, in the order the dictionary literal lists its keys
coarse_hubble_types == <<
    [key |-> "elliptical", value |-> <<"E", "E?">>],
    [key |-> "lenticular", value |-> <<"S0", "E-S0", "S0-a", "S?">>],
    [key |-> "spiral",
     value |-> <<"Sa", "Sab", "Sb", "Sbc", "Sc", "Scd",
                 "SABa", "SABab", "SABb", "SABbc", "SABc", "SABcd", "SABd",
                 "SBa", "SBab", "SBb", "SBbc", "SBc", "SBcd", "SBd">>],
    [key |-> "irregular",
     value |-> <<"Sd", "SABd", "SBd", "Sm", "SBm", "SABm", "I", "IB", "IAB">>] >>

Range(s) == {s[k] : k \in 1..Len(s)}

\* for key, value in coarse_hubble_types.items(): the first key whose list
\* holds row['Hubble'] is returned; ValueError when the scan ends
RECURSIVE scan_hubble_types(_, _)
scan_hubble_types(row, k) ==
    IF k > Len(coarse_hubble_types)
    THEN [err |-> "ValueError", val |-> "none"]
    ELSE IF row.Hubble \in Range(coarse_hubble_types[k].value)
         THEN [err |-> "none", val |-> coarse_hubble_types[k].key]
         ELSE scan_hubble_types(row, k + 1)

\* coarse_hubble_type falling back to a default class instead of raising
coarse_hubble_type_default(row) ==
    IF scan_hubble_types(row, 1).err = "none" THEN scan_hubble_types(row, 1)
    ELSE [err |-> "none", val |-> "irregular"]

coarse_hubble_type(row) == scan_hubble_types(row, 1)

---------------------------------------------------------------------------
(* Resolution *)

image_size == 256

\* padding = 1.25, as numerator and denominator
padding == <<5, 4>>

\* units of MajAx per arcminute
MajAxUnit == 100 * 100

\* units of image_res per arcsec/pixel
ResUnit == image_size * MajAxUnit

\* the literal 0.015, in units of image_res
ResLow == (15 * ResUnit) \div 1000

\* the literal 60, in units of image_res
ResHigh == 60 * ResUnit

\* sorted(list): insertion of the last element into the sorted rest
RECURSIVE sorted(_)
sorted(s) ==
    IF Len(s) <= 1 THEN s
    ELSE LET rest == sorted(SubSeq(s, 1, Len(s) - 1))
             x    == s[Len(s)]
             n    == Cardinality({k \in 1..Len(rest) : rest[k] <= x})
         IN  SubSeq(rest, 1, n) \o <<x>> \o SubSeq(rest, n + 1, Len(rest))

\* create_resolution taking the smallest of the three values, sorted(...)[0]
create_resolution_smallest(row) ==
    LET res         == (row.MajAx * 60 * padding[1]) \div padding[2]
        bounded_res == sorted(<<ResLow, res, ResHigh>>)[1]
    IN  [val     |-> bounded_res,
         flagged |-> bounded_res = ResLow \/ bounded_res = ResHigh]

\* create_resolution testing the lower bound only
create_resolution_low_only(row) ==
    LET res         == (row.MajAx * 60 * padding[1]) \div padding[2]
        bounded_res == sorted(<<ResLow, res, ResHigh>>)[2]
    IN  [val |-> bounded_res, flagged |-> bounded_res = ResLow]

\* the value returned, and whether row.name is appended to violated_bounds
create_resolution(row) ==
    LET MajAxArcsec == row.MajAx * 60
        res         == (MajAxArcsec * padding[1]) \div padding[2]
        bounded_res == sorted(<<ResLow, res, ResHigh>>)[2]
    IN  [val     |-> bounded_res,
         flagged |-> bounded_res = ResLow \/ bounded_res = ResHigh]

---------------------------------------------------------------------------
(* Links *)

url_0 == "https://skyservice.pha.jhu.edu/DR7/ImgCutout/getjpeg.aspx?ra="
url_1 == "&dec="
url_2 == "&width="
url_3 == "&height="
url_4 == "&scale="

\* the concatenation, kept as the sequence of its parts
produce_link(row) ==
    <<url_0, row.RA_decimal, url_1, row.Dec_decimal, url_2, image_size,
      url_3, image_size, url_4, row.image_res>>

---------------------------------------------------------------------------
(* Frames *)

\* pd.isnull: the value of an empty field
NA == "<NA>"

\* frame.loc[:, column] = values
with_column(frame, column, vals) ==
    [k \in 1..Len(frame) |-> (column :> vals[k]) @@ frame[k]]

\* frame[mask]: the rows whose mask entry is true, in order
RECURSIVE select(_, _)
select(frame, mask) ==
    IF Len(frame) = 0 THEN <<>>
    ELSE select(SubSeq(frame, 1, Len(frame) - 1), mask)
            \o (IF mask[Len(frame)] THEN <<frame[Len(frame)]>> ELSE <<>>)

\* the exception apply raises: that of the first row whose call raises
first_error(results) ==
    LET bad == {k \in 1..Len(results) : results[k].err # "none"}
    IN  IF bad = {} THEN "none"
        ELSE results[CHOOSE k \in bad : \A j \in bad : k <= j].err

values(results) == [k \in 1..Len(results) |-> results[k].val]

\* ngc_ic_raw[(Type == 'G') & (~isnull(Hubble))][['RA','Dec','MajAx','Hubble']]
trim(frame) ==
    LET galaxies == select(frame,
                      [k \in 1..Len(frame) |->
                          frame[k].Type = "G" /\ frame[k].Hubble # NA])
    IN  [k \in 1..Len(galaxies) |->
            [name   |-> galaxies[k].name,   RA    |-> galaxies[k].RA,
             Dec    |-> galaxies[k].Dec,    MajAx |-> galaxies[k].MajAx,
             Hubble |-> galaxies[k].Hubble]]

\* the mask with the rectangle's edges included
SDSS_imagery_closed(frame) ==
    [k \in 1..Len(frame) |->
        /\ frame[k].Dec_decimal >= 0
        /\ frame[k].Dec_decimal <= 60 * DecUnit
        /\ frame[k].RA_decimal >= 120 * RAUnit
        /\ frame[k].RA_decimal <= 240 * RAUnit]

\* (Dec_decimal > 0) & (Dec_decimal < 60) & (RA_decimal > 120) & (RA_decimal < 240)
SDSS_imagery(frame) ==
    [k \in 1..Len(frame) |->
        /\ frame[k].Dec_decimal > 0
        /\ frame[k].Dec_decimal < 60 * DecUnit
        /\ frame[k].RA_decimal > 120 * RAUnit
        /\ frame[k].RA_decimal < 240 * RAUnit]

\* the path imagery/<folder>/<name>.jpg
jpg(row) == [folder |-> row.Hubble_coarse, name |-> row.name]

---------------------------------------------------------------------------
(* The notebook's statements *)

\* an uncaught exception ends the run
raise(e) ==
    /\ pc' = "error"
    /\ err' = e

\* lines 66-68
Trim ==
    /\ pc = "trim"
    /\ ngc_ic' = trim(ngc_ic_raw)
    /\ pc' = "ra"
    /\ UNCHANGED <<ngc_ic_raw, ngc_ic_SDSS_imagery, violated_bounds,
                   dirs, files, server, i, err>>

\* line 120
ApplyRA ==
    /\ pc = "ra"
    /\ LET results == [k \in 1..Len(ngc_ic) |-> RA_HMS_to_dec_deg(ngc_ic[k].RA)]
       IN  IF first_error(results) # "none"
           THEN raise(first_error(results)) /\ UNCHANGED ngc_ic
           ELSE /\ ngc_ic' = with_column(ngc_ic, "RA_decimal", values(results))
                /\ pc' = "dec"
                /\ UNCHANGED err
    /\ UNCHANGED <<ngc_ic_raw, ngc_ic_SDSS_imagery, violated_bounds,
                   dirs, files, server, i>>

\* line 121
ApplyDec ==
    /\ pc = "dec"
    /\ LET results == [k \in 1..Len(ngc_ic) |-> DEC_DMS_to_dec_deg(ngc_ic[k].Dec)]
       IN  IF first_error(results) # "none"
           THEN raise(first_error(results)) /\ UNCHANGED ngc_ic
           ELSE /\ ngc_ic' = with_column(ngc_ic, "Dec_decimal", values(results))
                /\ pc' = "sky"
                /\ UNCHANGED err
    /\ UNCHANGED <<ngc_ic_raw, ngc_ic_SDSS_imagery, violated_bounds,
                   dirs, files, server, i>>

\* lines 152-153
SkyFilter ==
    /\ pc = "sky"
    /\ ngc_ic_SDSS_imagery' = select(ngc_ic, SDSS_imagery(ngc_ic))
    /\ pc' = "coarse"
    /\ UNCHANGED <<ngc_ic_raw, ngc_ic, violated_bounds, dirs, files, server,
                   i, err>>

\* line 217
ApplyCoarse ==
    /\ pc = "coarse"
    /\ LET results == [k \in 1..Len(ngc_ic_SDSS_imagery) |->
                          coarse_hubble_type(ngc_ic_SDSS_imagery[k])]
       IN  IF first_error(results) # "none"
           THEN raise(first_error(results)) /\ UNCHANGED ngc_ic_SDSS_imagery
           ELSE /\ ngc_ic_SDSS_imagery' =
                      with_column(ngc_ic_SDSS_imagery, "Hubble_coarse",
                                  values(results))
                /\ pc' = "res"
                /\ UNCHANGED err
    /\ UNCHANGED <<ngc_ic_raw, ngc_ic, violated_bounds, dirs, files, server, i>>

\* lines 247-256
ApplyResolution ==
    /\ pc = "res"
    /\ LET results == [k \in 1..Len(ngc_ic_SDSS_imagery) |->
                          create_resolution(ngc_ic_SDSS_imagery[k])]
           flagged == select(ngc_ic_SDSS_imagery,
                             [k \in 1..Len(results) |-> results[k].flagged])
       IN  /\ violated_bounds' = [k \in 1..Len(flagged) |-> flagged[k].name]
           /\ ngc_ic_SDSS_imagery' =
                 with_column(ngc_ic_SDSS_imagery, "image_res", values(results))
    /\ pc' = "link"
    /\ UNCHANGED <<ngc_ic_raw, ngc_ic, dirs, files, server, i, err>>

\* line 299
ApplyLink ==
    /\ pc = "link"
    /\ ngc_ic_SDSS_imagery' =
          with_column(ngc_ic_SDSS_imagery, "image_link",
                      [k \in 1..Len(ngc_ic_SDSS_imagery) |->
                          produce_link(ngc_ic_SDSS_imagery[k])])
    /\ i' = 1
    /\ pc' = IF Len(ngc_ic_SDSS_imagery) = 0 THEN "done" ELSE "folder"
    /\ UNCHANGED <<ngc_ic_raw, ngc_ic, violated_bounds, dirs, files, server, err>>

\* get_image, lines 319-323: the class folder is made when it is missing
makedirs(row) == dirs \cup {row.Hubble_coarse}

GetImageFolder ==
    /\ pc = "folder"
    /\ dirs' = makedirs(ngc_ic_SDSS_imagery[i])
    /\ pc' = "retrieve"
    /\ UNCHANGED <<ngc_ic_raw, ngc_ic, ngc_ic_SDSS_imagery, violated_bounds,
                   files, server, i, err>>

\* the file placed under the fine-grained class instead of the coarse one
filename_fine_class(row) == [folder |-> row.Hubble, name |-> row.name]

\* get_image, lines 324-326: the file the response is written to
filename(row) == jpg(row)

\* urlretrieve writes the file, or raises and get_image, apply and the run end
GetImageRetrieve ==
    /\ pc = "retrieve"
    /\ IF ngc_ic_SDSS_imagery[i].name \in server
       THEN /\ files' = files \cup {filename(ngc_ic_SDSS_imagery[i])}
            /\ i' = i + 1
            /\ pc' = IF i = Len(ngc_ic_SDSS_imagery) THEN "done" ELSE "folder"
            /\ UNCHANGED err
       ELSE raise("URLError") /\ UNCHANGED <<files, i>>
    /\ UNCHANGED <<ngc_ic_raw, ngc_ic, ngc_ic_SDSS_imagery, violated_bounds,
                   dirs, server>>

---------------------------------------------------------------------------
(* Catalogs *)

\* the index of the k-th row of the file
name(k) == <<"NGC", k>>

Pad2(n) == <<Digit[(n \div 10) + 1], Digit[(n % 10) + 1]>>

\* "AA:BB:CC"
sexagesimal(a, b, c) == Pad2(a) \o <<":">> \o Pad2(b) \o <<":">> \o Pad2(c)

\* "AA:BB:CC.DD"
sexagesimal_frac(a, b, c, d) == sexagesimal(a, b, c) \o <<".">> \o Pad2(d)

named(rows) == [k \in 1..Len(rows) |-> ("name" :> name(k)) @@ rows[k]]

\* the frames of at most max rows drawn from Kinds, indexed in file order
Frames(Kinds, max) ==
    {named(rows) : rows \in UNION {[1..n -> Kinds] : n \in 0..max}}

\* a record of NGC.csv
csv_row(type, hubble, ra, dec, majax) ==
    [Type |-> type, Hubble |-> hubble, RA |-> ra, Dec |-> dec, MajAx |-> majax]

\* a row of ngc_ic as line 68 leaves it
ngc_ic_row(hubble, ra, dec, majax) ==
    [Hubble |-> hubble, RA |-> ra, Dec |-> dec, MajAx |-> majax]

\* a row of ngc_ic_SDSS_imagery as line 153 leaves it
imagery_row(hubble, ra, dec, majax) ==
    ("RA_decimal" :> RA_HMS_to_dec_deg(ra).val)
        @@ ("Dec_decimal" :> DEC_DMS_to_dec_deg(dec).val)
        @@ ngc_ic_row(hubble, ra, dec, majax)

RA_noon == sexagesimal_frac(12, 0, 0, 0)

Dec_north == <<"+">> \o sexagesimal_frac(30, 0, 0, 0)

Dec_south == <<"-">> \o sexagesimal_frac(10, 0, 0, 0)

Dec_unsigned == sexagesimal(45, 30, 0)

row_elliptical == csv_row("G", "E", RA_noon, Dec_north, MajAxUnit)

row_unmapped == csv_row("G", "Q9", RA_noon, Dec_north, MajAxUnit)

row_south == csv_row("G", "Sb", RA_noon, Dec_south, MajAxUnit)

row_tiny_spiral == csv_row("G", "SBd", RA_noon, Dec_north, MajAxUnit \div 1000)

row_nebula == csv_row("PN", NA, RA_noon, Dec_north, MajAxUnit)

row_unsigned == csv_row("G", "E", RA_noon, Dec_unsigned, MajAxUnit)

CatalogRows ==
    {row_elliptical, row_unmapped, row_south, row_tiny_spiral, row_nebula,
     row_unsigned}

MaxCatalog == 3

---------------------------------------------------------------------------
(* The run of the whole notebook *)

Init ==
    /\ ngc_ic_raw \in Frames(CatalogRows, MaxCatalog)
    /\ server \in SUBSET {name(k) : k \in 1..Len(ngc_ic_raw)}
    /\ ngc_ic = <<>>
    /\ ngc_ic_SDSS_imagery = <<>>
    /\ violated_bounds = <<>>
    /\ dirs = {}
    /\ files = {}
    /\ i = 1
    /\ pc = "trim"
    /\ err = "none"

Next ==
    \/ Trim
    \/ ApplyRA
    \/ ApplyDec
    \/ SkyFilter
    \/ ApplyCoarse
    \/ ApplyResolution
    \/ ApplyLink
    \/ GetImageFolder
    \/ GetImageRetrieve

Spec == Init /\ [][Next]_vars

---------------------------------------------------------------------------
(* The cells on their own, over the frames they can be handed *)

\* the variables a cell does not read start as the notebook starts them
idle ==
    /\ ngc_ic_raw = <<>>
    /\ server = {}
    /\ violated_bounds = <<>>
    /\ dirs = {}
    /\ files = {}
    /\ i = 1
    /\ err = "none"

\* line 120 on every valid "HH:MM:SS"
ValidHMS ==
    {sexagesimal(h, m, s) : h \in 0..23, m \in 0..59, s \in 0..59}

InitRA ==
    /\ idle
    /\ ngc_ic \in {named(<<ngc_ic_row("E", ra, Dec_north, MajAxUnit)>>) :
                       ra \in ValidHMS}
    /\ ngc_ic_SDSS_imagery = <<>>
    /\ pc = "ra"

SpecRA == InitRA /\ [][ApplyRA]_vars

\* lines 120-121 on well-formed and malformed coordinate strings
MaxFields == 4

CoordFields == {<<"1", "2">>, <<"3", "0">>, <<>>, <<"x">>}

RECURSIVE Joined(_)
Joined(n) ==
    IF n = 1 THEN CoordFields
    ELSE {head \o <<":">> \o f : head \in Joined(n - 1), f \in CoordFields}

CoordStrings == UNION {Joined(n) : n \in 1..MaxFields}

SignedCoordStrings == {sign \o c : sign \in {<<"+">>, <<"-">>, <<>>}, c \in CoordStrings}

InitCoord ==
    /\ idle
    /\ ngc_ic \in
          {named(<<ngc_ic_row("E", ra, Dec_north, MajAxUnit)>>) :
               ra \in CoordStrings}
          \cup {named(<<ngc_ic_row("E", RA_noon, dec, MajAxUnit)>>) :
                    dec \in SignedCoordStrings}
    /\ ngc_ic_SDSS_imagery = <<>>
    /\ pc = "ra"

NextCoord == ApplyRA \/ ApplyDec

SpecCoord == InitCoord /\ [][NextCoord]_vars

\* lines 120-153 on coordinates at, next to and away from the rectangle's edges
MaxSkyRows == 2

SkyRA ==
    {sexagesimal_frac(8, 0, 0, 0), sexagesimal_frac(8, 0, 0, 1),
     sexagesimal_frac(12, 0, 0, 0),
     sexagesimal_frac(15, 59, 59, 99), sexagesimal_frac(16, 0, 0, 0)}

SkyDec ==
    {<<"+">> \o sexagesimal_frac(0, 0, 0, 0), <<"+">> \o sexagesimal_frac(0, 0, 0, 1),
     <<"+">> \o sexagesimal_frac(59, 59, 59, 99),
     <<"+">> \o sexagesimal_frac(60, 0, 0, 0), <<"-">> \o sexagesimal_frac(30, 0, 0, 0)}

InitSky ==
    /\ idle
    /\ ngc_ic \in Frames({ngc_ic_row("Sb", ra, dec, MajAxUnit) :
                              ra \in SkyRA, dec \in SkyDec}, MaxSkyRows)
    /\ ngc_ic_SDSS_imagery = <<>>
    /\ pc = "ra"

NextSky == ApplyRA \/ ApplyDec \/ SkyFilter

SpecSky == InitSky /\ [][NextSky]_vars

\* line 217 on every code of the table and on codes the table does not list
MaxMapRows == 2

TableCodes == UNION {Range(coarse_hubble_types[t].value) :
                         t \in 1..Len(coarse_hubble_types)}

UnlistedCodes == {"Q9", "Sdm", "SB0", "e", ""}

InitMapper ==
    /\ idle
    /\ ngc_ic = <<>>
    /\ ngc_ic_SDSS_imagery \in
          Frames({imagery_row(c, RA_noon, Dec_north, MajAxUnit) :
                      c \in TableCodes \cup UnlistedCodes}, MaxMapRows)
    /\ pc = "coarse"

SpecMapper == InitMapper /\ [][ApplyCoarse]_vars

\* lines 247-256 on major axes below, at, inside and above the bounds
MaxResRows == 3

\* 0.001, 0.0512, 0.0513, 1.0, 1.17, 204.7, 204.8 and 300 arcminutes
MajAxValues ==
    {MajAxUnit \div 1000, (512 * MajAxUnit) \div 10000,
     (513 * MajAxUnit) \div 10000, MajAxUnit, (117 * MajAxUnit) \div 100,
     (2047 * MajAxUnit) \div 10, (2048 * MajAxUnit) \div 10, 300 * MajAxUnit}

InitRes ==
    /\ idle
    /\ ngc_ic = <<>>
    /\ ngc_ic_SDSS_imagery \in
          Frames({("Hubble_coarse" :> "spiral")
                      @@ imagery_row("Sb", RA_noon, Dec_north, a) :
                      a \in MajAxValues}, MaxResRows)
    /\ pc = "res"

SpecRes == InitRes /\ [][ApplyResolution]_vars

---------------------------------------------------------------------------
(* Properties *)

CoarseClasses == {"elliptical", "lenticular", "spiral", "irregular"}

Rows(frame) == 1..Len(frame)

\* C1: when the mapping cell has run, a frame whose fine-grained codes all
\* appear in the table has every row mapped to one of the four coarse
\* classes, and a frame holding a code the table does not list (such as
\* "Q9") has raised the unmapped-class error (the code's ValueError) and
\* received no class, not a default one.
C1_MapperTotal ==
    pc # "coarse" =>
        LET frame == ngc_ic_SDSS_imagery
        IN  IF \A k \in Rows(frame) : frame[k].Hubble \in TableCodes
            THEN /\ pc = "res"
                 /\ err = "none"
                 /\ \A k \in Rows(frame) : frame[k].Hubble_coarse \in CoarseClasses
            ELSE /\ pc = "error"
                 /\ err = "ValueError"
                 /\ \A k \in Rows(frame) : "Hubble_coarse" \notin DOMAIN frame[k]

C1_Witness ==
    /\ pc = "error"
    /\ Len(ngc_ic_SDSS_imagery) = 2
    /\ ngc_ic_SDSS_imagery[1].Hubble = "E"
    /\ ngc_ic_SDSS_imagery[2].Hubble = "Q9"

Flagged == Range(violated_bounds)

\* C3, as stated: when the resolution cell has run, violated_bounds holds a
\* row's name exactly when the unclamped value MajAx*60*padding/image_size
\* was strictly below 0.015 or strictly above 60.
C3_FlaggedIffClamped ==
    pc = "link" =>
        \A k \in Rows(ngc_ic_SDSS_imagery) :
            LET a == ngc_ic_SDSS_imagery[k].MajAx
            IN  ngc_ic_SDSS_imagery[k].name \in Flagged
                    <=> (300 * a < 4 * ResLow \/ 300 * a > 4 * ResHigh)

\* C3, amended: when the resolution cell has run, violated_bounds holds a
\* row's name exactly when the unclamped value was at or below 0.015 or at or
\* above 60, each flagged name once; a row strictly inside the range is not
\* flagged, a row at exactly 0.015 or exactly 60 is.
C3_FlaggedIffAtBound ==
    pc = "link" =>
        /\ \A k \in Rows(ngc_ic_SDSS_imagery) :
              LET a == ngc_ic_SDSS_imagery[k].MajAx
              IN  ngc_ic_SDSS_imagery[k].name \in Flagged
                      <=> (300 * a <= 4 * ResLow \/ 300 * a >= 4 * ResHigh)
        /\ Cardinality(Flagged) = Len(violated_bounds)

C3_Witness ==
    /\ pc = "link"
    /\ Len(ngc_ic_SDSS_imagery) = 3
    /\ 300 * ngc_ic_SDSS_imagery[1].MajAx = 4 * ResHigh
    /\ 300 * ngc_ic_SDSS_imagery[2].MajAx < 4 * ResLow
    /\ ngc_ic_SDSS_imagery[3].MajAx = MajAxUnit
    /\ violated_bounds = <<name(1), name(2)>>

Colons(s) == Cardinality({k \in 1..Len(s) : s[k] = ":"})

\* C4: a coordinate string that is malformed -- a declination whose first
\* character is neither '+' nor '-', or a right ascension or declination
\* whose number of colon-separated fields is not three -- is rejected with
\* the format error (the code's ValueError) and gets no decimal value.
C4_MalformedRejected ==
    /\ (pc # "ra" /\ Colons(ngc_ic[1].RA) # 2) =>
           /\ pc = "error" /\ err = "ValueError"
           /\ "RA_decimal" \notin DOMAIN ngc_ic[1]
    /\ (pc \notin {"ra", "dec"}
            /\ \/ Colons(ngc_ic[1].Dec) # 2
               \/ Len(ngc_ic[1].Dec) = 0
               \/ ngc_ic[1].Dec[1] \notin {"+", "-"}) =>
           /\ pc = "error" /\ err = "ValueError"
           /\ "Dec_decimal" \notin DOMAIN ngc_ic[1]

\* C5: when the download loop has ended, by reaching the last row or by a
\* fetch error, every row whose own fetch the service answers has its image
\* file: a fetch error on one row does not keep later rows from being fetched.
C5_FetchErrorDoesNotAbort ==
    (pc = "done" \/ (pc = "error" /\ err = "URLError")) =>
        \A k \in Rows(ngc_ic_SDSS_imagery) :
            ngc_ic_SDSS_imagery[k].name \in server
                => jpg(ngc_ic_SDSS_imagery[k]) \in files

bare(row) == [f \in DOMAIN row \ {"name"} |-> row[f]]

\* C6: when the run over a three-row catalog of one row with a mapped class,
\* one row with an unmapped class and one row outside the sky rectangle has
\* ended, exactly one row has been given its fetch parameters (image_res),
\* the unmapped-class error has been raised, and exactly one row has been
\* filtered out by the sky rectangle, wherever the bad rows stand.
C6_OffendingRecordOnly ==
    (/\ pc \in {"done", "error"}
     /\ Len(ngc_ic_raw) = 3
     /\ {bare(ngc_ic_raw[k]) : k \in Rows(ngc_ic_raw)}
            = {row_elliptical, row_unmapped, row_south}) =>
        /\ Cardinality({k \in Rows(ngc_ic_SDSS_imagery) :
                           "image_res" \in DOMAIN ngc_ic_SDSS_imagery[k]}) = 1
        /\ err = "ValueError"
        /\ Len(ngc_ic) - Len(ngc_ic_SDSS_imagery) = 1

inside(row) ==
    /\ 0 < row.Dec_decimal /\ row.Dec_decimal < 60 * DecUnit
    /\ 120 * RAUnit < row.RA_decimal /\ row.RA_decimal < 240 * RAUnit

\* C7: when the sky filter has run, the filtered frame is exactly the rows
\* of the converted frame, unchanged and in order, whose declination is
\* strictly between 0 and 60 degrees and whose right ascension is strictly
\* between 120 and 240 degrees; a row on an edge is dropped.
C7_SkyFilterStrict ==
    pc = "coarse" =>
        /\ ngc_ic_SDSS_imagery = SelectSeq(ngc_ic, inside)
        /\ \A k \in Rows(ngc_ic_SDSS_imagery) :
              /\ ngc_ic_SDSS_imagery[k].Dec_decimal \notin {0, 60 * DecUnit}
              /\ ngc_ic_SDSS_imagery[k].RA_decimal
                     \notin {120 * RAUnit, 240 * RAUnit}

C7_Witness ==
    /\ pc = "coarse"
    /\ Len(ngc_ic) = 2
    /\ ngc_ic[1].Dec_decimal = 60 * DecUnit
    /\ ngc_ic[1].RA_decimal = 180 * RAUnit
    /\ ngc_ic[2].Dec_decimal = 60 * DecUnit - 1
    /\ ngc_ic[2].RA_decimal = 120 * RAUnit + 1
    /\ ngc_ic_SDSS_imagery = <<ngc_ic[2]>>

\* C8: at every point of the download loop every image file is
\* <coarse class of r>/<name of r>.jpg for a row r the loop has already
\* fetched, in a class folder that exists; and a file is only ever written
\* into a folder that existed before the write.
C8_FilesUnderOwnClass ==
    /\ [](\A f \in files :
             /\ f.folder \in dirs
             /\ \E k \in Rows(ngc_ic_SDSS_imagery) :
                   /\ k < i
                   /\ f.folder = ngc_ic_SDSS_imagery[k].Hubble_coarse
                   /\ f.name = ngc_ic_SDSS_imagery[k].name)
    /\ [][\A f \in files' \ files : f.folder \in dirs]_vars

C8_Witness ==
    /\ pc = "folder"
    /\ i = 3
    /\ files = {[folder |-> "elliptical", name |-> name(1)],
                [folder |-> "spiral", name |-> name(2)]}
    /\ dirs = {"elliptical", "spiral"}

HH(s) == 10 * DigitVal(s[1]) + DigitVal(s[2])
MM(s) == 10 * DigitVal(s[4]) + DigitVal(s[5])
SS(s) == 10 * DigitVal(s[7]) + DigitVal(s[8])

\* C9: for every valid "HH:MM:SS" the converted right ascension is
\* 15*H + 0.25*M + S/240 degrees, lies in [0, 360), and is strictly below
\* the value for the next hour, the next minute and the next second.
C9_RAValueMonotonic ==
    pc = "dec" =>
        LET HMS == ngc_ic[1].RA
            h   == HH(HMS)
            m   == MM(HMS)
            s   == SS(HMS)
            deg == ngc_ic[1].RA_decimal
        IN  /\ deg = 15 * RAUnit * h + (RAUnit \div 4) * m + (RAUnit \div 240) * s
            /\ 0 <= deg /\ deg < 360 * RAUnit
            /\ h < 23 => deg < RA_HMS_to_dec_deg(sexagesimal(h + 1, m, s)).val
            /\ m < 59 => deg < RA_HMS_to_dec_deg(sexagesimal(h, m + 1, s)).val
            /\ s < 59 => deg < RA_HMS_to_dec_deg(sexagesimal(h, m, s + 1)).val

C9_Witness ==
    /\ pc = "dec"
    /\ ngc_ic[1].RA = sexagesimal(23, 59, 59)
    /\ ngc_ic[1].RA_decimal = 360 * RAUnit - 100

\* C10: when the mapping cell has run, every row whose fine-grained code is
\* listed in the table's set for a coarse class K has been given K: the
\* mapper agrees with every entry of the table, whatever the scan order.
C10_TableAgreement ==
    pc = "res" =>
        \A k \in Rows(ngc_ic_SDSS_imagery) :
            \A t \in 1..Len(coarse_hubble_types) :
                ngc_ic_SDSS_imagery[k].Hubble
                        \in Range(coarse_hubble_types[t].value)
                    => ngc_ic_SDSS_imagery[k].Hubble_coarse
                           = coarse_hubble_types[t].key

====
